---------------------------- MODULE Spec2Model ----------------------------
(***************************************************************************)
(* Model of the testimony corpus store and content matcher of              *)
(* backend/testimony_search.py together with the flat-term search endpoint *)
(* of backend/app.py.                                                      *)
(*                                                                         *)
(* Text is modelled as a sequence of one-character strings, so that        *)
(* lowercasing, trimming, splitting and substring counting are computed    *)
(* and not assumed.  The local corpus file is a sequence of lines, each    *)
(* classified by what json.loads and str.strip make of it.                 *)
(***************************************************************************)
EXTENDS Integers, Sequences, FiniteSets, TLC

(***************************************************************************)
(* Bounds of the model.                                                    *)
(***************************************************************************)
NCallers == 2
MaxCalls == 2
MaxRecs == 2
MaxContentLen == 3
MaxTerms == 2
MaxTermLen == 2
MaxQueryLen == 3
MaxLines == 3
MaxWordLen == 3
MaxSuggested == 2

Callers == 1..NCallers

(***************************************************************************)
(* Characters and strings.                                                 *)
(***************************************************************************)
Upper == <<"A","B","C","D","E","F","G","H","I","J","K","L","M",
           "N","O","P","Q","R","S","T","U","V","W","X","Y","Z">>
LowerOf == <<"a","b","c","d","e","f","g","h","i","j","k","l","m",
             "n","o","p","q","r","s","t","u","v","w","x","y","z">>

\* str.lower() on one character
LowerChar(ch) ==
    IF \E i \in 1..Len(Upper) : Upper[i] = ch
    THEN LowerOf[CHOOSE i \in 1..Len(Upper) : Upper[i] = ch]
    ELSE ch

\* str.lower()
Lower(s) == [i \in 1..Len(s) |-> LowerChar(s[i])]

IsSpace(ch) == ch \in {" ", "\t", "\n"}

RECURSIVE LStrip(_)
LStrip(s) == IF s # <<>> /\ IsSpace(Head(s)) THEN LStrip(Tail(s)) ELSE s

RECURSIVE RStrip(_)
RStrip(s) ==
    IF s # <<>> /\ IsSpace(s[Len(s)]) THEN RStrip(SubSeq(s, 1, Len(s) - 1)) ELSE s

\* str.strip()
Strip(s) == RStrip(LStrip(s))

\* str.split(","): the pieces between commas, empty pieces kept
RECURSIVE SplitFrom(_, _, _)
SplitFrom(s, i, cur) ==
    IF i > Len(s) THEN <<cur>>
    ELSE IF s[i] = "," THEN <<cur>> \o SplitFrom(s, i + 1, <<>>)
    ELSE SplitFrom(s, i + 1, Append(cur, s[i]))

Split(s) == SplitFrom(s, 1, <<>>)

\* whether t occurs in s at position i
MatchAt(s, t, i) ==
    /\ i + Len(t) - 1 <= Len(s)
    /\ \A k \in 1..Len(t) : s[i + k - 1] = t[k]

\* str.count(t) scanning from position i, overlapping occurrences counted
RECURSIVE CountOverlapping(_, _, _)
CountOverlapping(s, t, i) ==
    IF i + Len(t) - 1 > Len(s) THEN 0
    ELSE IF MatchAt(s, t, i) THEN 1 + CountOverlapping(s, t, i + 1)
    ELSE CountOverlapping(s, t, i + 1)

\* str.count(t) scanning from position i: a match consumes its span
RECURSIVE CountFrom(_, _, _)
CountFrom(s, t, i) ==
    IF i + Len(t) - 1 > Len(s) THEN 0
    ELSE IF MatchAt(s, t, i) THEN 1 + CountFrom(s, t, i + Len(t))
    ELSE CountFrom(s, t, i + 1)

\* a count that lets occurrences share characters
StrCountOverlapping(s, t) ==
    IF t = <<>> THEN Len(s) + 1 ELSE CountOverlapping(s, t, 1)

\* str.count(t): the empty string is found between all characters
StrCount(s, t) == IF t = <<>> THEN Len(s) + 1 ELSE CountFrom(s, t, 1)


(***************************************************************************)
(* The corpus file.  A line is what the scan makes of it:                  *)
(*   "rec"    a JSON object with string fields filename, content, link     *)
(*   "blank"  nothing left after strip()                                   *)
(*   "bad"    text json.loads rejects (also a line cut by a broken write)  *)
(*   "ptr"    text json.loads rejects that contains "git-lfs.github.com"   *)
(*   "nonobj" valid JSON that is not an object                             *)
(* fault says where reading the file as UTF-8 text raises: "head" (open or *)
(* the first read raises), "tail" (a later read raises) or "none".         *)
(***************************************************************************)
Rec(fn, content, link) ==
    [kind |-> "rec", filename |-> fn, content |-> content, link |-> link]
Blank == [kind |-> "blank", filename |-> "", content |-> <<>>, link |-> ""]
Bad == [kind |-> "bad", filename |-> "", content |-> <<>>, link |-> ""]
Ptr == [kind |-> "ptr", filename |-> "", content |-> <<>>, link |-> ""]
NonObj == [kind |-> "nonobj", filename |-> "", content |-> <<>>, link |-> ""]

File(lines) == [exists |-> TRUE, fault |-> "none", lines |-> lines]
Absent == [exists |-> FALSE, fault |-> "none", lines |-> <<>>]
Faulty(where, lines) == [exists |-> TRUE, fault |-> where, lines |-> lines]

\* the file served by TESTIMONIES_URL, one chunk of iter_content per line
RemoteLines ==
    << Rec("r1.docx", <<"a", "b">>, ""), Rec("r2.docx", <<"b">>, "http://x") >>

\* f.readline() of _is_lfs_pointer: the first line, "" for an empty file
HasMarker(line) == line.kind = "ptr"

FirstLineHasMarker(f) == f.lines # <<>> /\ HasMarker(f.lines[1])

\* a pointer check that takes a missing file for a real one
IsLfsPointerMissingFalse(f) ==
    IF ~f.exists THEN "false"
    ELSE IF f.fault = "head" THEN "raise"
    ELSE IF FirstLineHasMarker(f) THEN "true"
    ELSE "false"

\* _is_lfs_pointer: "true", "false" or "raise" (an error other than
\* FileNotFoundError is not caught)
IsLfsPointer(f) ==
    IF ~f.exists THEN "true"
    ELSE IF f.fault = "head" THEN "raise"
    ELSE IF FirstLineHasMarker(f) THEN "true"
    ELSE "false"

\* the validation loop: lines with something left after strip()
RECURSIVE CountNonBlank(_)
CountNonBlank(lines) ==
    IF lines = <<>> THEN 0
    ELSE (IF Head(lines).kind # "blank" THEN 1 ELSE 0) + CountNonBlank(Tail(lines))

(***************************************************************************)
(* search_testimonies_content, the part after ensure_testimonies_file.     *)
(***************************************************************************)
SeqRange(s) == {s[i] : i \in 1..Len(s)}

\* lines 115-121: lowercase, keep the first of equal terms
RECURSIVE UniqueFrom(_, _, _)
UniqueFrom(terms, i, acc) ==
    IF i > Len(terms) THEN acc
    ELSE LET t_lower == Lower(terms[i])
         IN  IF t_lower \in SeqRange(acc)
             THEN UniqueFrom(terms, i + 1, acc)
             ELSE UniqueFrom(terms, i + 1, Append(acc, t_lower))

\* the terms lowercased, equal terms kept
UniqueTermsKeepRepeats(terms) == [i \in 1..Len(terms) |-> Lower(terms[i])]

UniqueTerms(terms) == UniqueFrom(terms, 1, <<>>)

\* line 138: sum(content.count(term) for term in unique_terms)
RECURSIVE SumCounts(_, _, _)
SumCounts(content, unique, i) ==
    IF i > Len(unique) THEN 0
    ELSE StrCount(content, unique[i]) + SumCounts(content, unique, i + 1)

HitCount(line, unique) == SumCounts(Lower(line.content), unique, 1)

Scored(line, n) == [filename |-> line.filename, link |-> line.link, hitCount |-> n]

\* lines 129-144: the scan; err is set when a line makes the scan raise
RECURSIVE ScanLines(_, _, _, _)
ScanLines(lines, i, unique, results) ==
    IF i > Len(lines) THEN [err |-> FALSE, results |-> results]
    ELSE LET line == lines[i] IN
         IF line.kind = "blank" THEN ScanLines(lines, i + 1, unique, results)
         ELSE IF line.kind \in {"bad", "ptr"} THEN ScanLines(lines, i + 1, unique, results)
         ELSE IF line.kind = "nonobj" THEN [err |-> TRUE, results |-> results]
         ELSE LET hit_count == HitCount(line, unique) IN
              IF hit_count > 0
              THEN ScanLines(lines, i + 1, unique, Append(results, Scored(line, hit_count)))
              ELSE ScanLines(lines, i + 1, unique, results)

\* insert x behind every entry whose hitCount is not smaller
RECURSIVE InsertStable(_, _)
InsertStable(sorted, x) ==
    IF sorted = <<>> THEN <<x>>
    ELSE IF Head(sorted).hitCount >= x.hitCount
         THEN <<Head(sorted)>> \o InsertStable(Tail(sorted), x)
         ELSE <<x>> \o sorted

\* insert x in front of every entry whose hitCount is not larger
RECURSIVE InsertUnstable(_, _)
InsertUnstable(sorted, x) ==
    IF sorted = <<>> THEN <<x>>
    ELSE IF Head(sorted).hitCount > x.hitCount
         THEN <<Head(sorted)>> \o InsertUnstable(Tail(sorted), x)
         ELSE <<x>> \o sorted

RECURSIVE SortUnstable(_, _)
SortUnstable(results, acc) ==
    IF results = <<>> THEN acc
    ELSE SortUnstable(Tail(results), InsertUnstable(acc, Head(results)))

RECURSIVE SortFrom(_, _)
SortFrom(results, acc) ==
    IF results = <<>> THEN acc
    ELSE SortFrom(Tail(results), InsertStable(acc, Head(results)))

\* a descending sort that does not keep the order of equal entries
SortByHitCountUnstable(results) == SortUnstable(results, <<>>)

\* line 149: results.sort(key=hitCount, reverse=True), a stable sort
SortByHitCount(results) == SortFrom(results, <<>>)

\* lines 126-150 on a file that could be opened
ScanFile(f, unique) ==
    IF f.fault # "none" THEN <<>>
    ELSE LET scan == ScanLines(f.lines, 1, unique, <<>>)
         IN  IF scan.err THEN <<>> ELSE SortByHitCount(scan.results)

\* lines 241: [t.strip() for t in terms.split(",") if t.strip()]
RECURSIVE StripNonEmpty(_, _)
StripNonEmpty(pieces, i) ==
    IF i > Len(pieces) THEN <<>>
    ELSE IF Strip(pieces[i]) # <<>>
         THEN <<Strip(pieces[i])>> \o StripNonEmpty(pieces, i + 1)
         ELSE StripNonEmpty(pieces, i + 1)

\* the pieces trimmed, the empty ones kept
ParseTermsKeepEmpty(query) == [i \in 1..Len(Split(query)) |-> Strip(Split(query)[i])]

ParseTerms(query) == StripNonEmpty(Split(query), 1)


(***************************************************************************)
(* generate_derivatives                                                    *)
(***************************************************************************)
SUFFIXES ==
    << <<"s">>, <<"e","s">>, <<"e","d">>, <<"d">>, <<"i","n","g">>, <<"e","r">>,
       <<"e","r","s">>, <<"l","y">>, <<"t","i","o","n">>, <<"s","i","o","n">>,
       <<"m","e","n","t">>, <<"n","e","s","s">>, <<"f","u","l">>,
       <<"l","e","s","s">>, <<"o","u","s">>, <<"i","v","e">>, <<"a","l">>,
       <<"i","t","y">> >>

\* the characters of the model in code point order
CodePoints == <<" ", ",">> \o Upper \o LowerOf

Ord(ch) == CHOOSE i \in 1..Len(CodePoints) : CodePoints[i] = ch

\* s < t on Python strings: code point by code point, a proper prefix first
StrLess(s, t) ==
    \E k \in 1..Len(t) :
        /\ k <= Len(s) + 1
        /\ \A j \in 1..(k - 1) : s[j] = t[j]
        /\ (k = Len(s) + 1 \/ Ord(s[k]) < Ord(t[k]))

\* sorted() of a set of strings
RECURSIVE SortedStrings(_)
SortedStrings(S) ==
    IF S = {} THEN <<>>
    ELSE LET m == CHOOSE x \in S : \A y \in S : x = y \/ StrLess(x, y)
         IN  <<m>> \o SortedStrings(S \ {m})

\* word[:-1]
DropLast(word) == SubSeq(word, 1, Len(word) - 1)

\* lines 85-87: word + suffix for every suffix
Suffixed(word) == {word \o SUFFIXES[i] : i \in 1..Len(SUFFIXES)}

\* lines 90-93: words ending in "e"
EndingInE(word) ==
    IF word[Len(word)] = "e"
    THEN { DropLast(word) \o <<"i","n","g">>,
           word \o <<"d">>,
           DropLast(word) \o <<"a","t","i","o","n">> }
    ELSE {}

\* lines 96-99: words ending in "y"
EndingInY(word) ==
    IF word[Len(word)] = "y"
    THEN { DropLast(word) \o <<"i","e","s">>,
           DropLast(word) \o <<"i","e","d">>,
           DropLast(word) \o <<"i","e","r">> }
    ELSE {}

\* a derivation without consonant doubling
NoDoubling(word) == {}

\* lines 102-105: consonant doubling
Doubling(word) ==
    IF /\ Len(word) >= 3
       /\ word[Len(word)] \notin {"a","e","i","o","u","w","y"}
       /\ word[Len(word) - 1] \in {"a","e","i","o","u"}
       /\ word[Len(word) - 2] \notin {"a","e","i","o","u"}
    THEN { word \o <<word[Len(word)]>> \o <<"i","n","g">>,
           word \o <<word[Len(word)]>> \o <<"e","d">>,
           word \o <<word[Len(word)]>> \o <<"e","r">> }
    ELSE {}

\* lines 85-108: the set of derivatives of a word of two characters or more
Derivatives(word) ==
    (Suffixed(word) \cup EndingInE(word) \cup EndingInY(word) \cup Doubling(word))
        \ {word}

\* a derivation that does not look at the length of the word
GenerateDerivativesAnyLength(w) ==
    LET word == Lower(Strip(w)) IN
    IF word = <<>> THEN SortedStrings(Suffixed(word))
    ELSE SortedStrings(Derivatives(word))

\* generate_derivatives
GenerateDerivatives(w) ==
    LET word == Lower(Strip(w)) IN
    IF word = <<>> \/ Len(word) < 2 THEN <<>>
    ELSE SortedStrings(Derivatives(word))


(***************************************************************************)
(* suggest_terms after the reply, and the query terms of the suggestion    *)
(* endpoint.                                                               *)
(***************************************************************************)
\* {"term": t, "derivatives": generate_derivatives(t)} for every term
Enrich(terms) ==
    [i \in 1..Len(terms) |->
        [term |-> terms[i], derivatives |-> GenerateDerivatives(terms[i])]]

\* the entries with every term in lowercase
QueryTermsLowered(user_terms) == Enrich([i \in 1..Len(user_terms) |-> Lower(user_terms[i])])

\* app.py lines 194-197
QueryTerms(user_terms) == Enrich(user_terms)

\* insert x behind every entry whose term, as written, is not greater
InsertByTerm(sorted, x) ==
    LET n == Cardinality({i \in 1..Len(sorted) : ~StrLess(x.term, sorted[i].term)})
    IN  SubSeq(sorted, 1, n) \o <<x>> \o SubSeq(sorted, n + 1, Len(sorted))

RECURSIVE SortByTermFrom(_, _, _)
SortByTermFrom(entries, i, acc) ==
    IF i > Len(entries) THEN acc
    ELSE SortByTermFrom(entries, i + 1, InsertByTerm(acc, entries[i]))

\* a sort that compares the terms as written
SortedByTerm(entries) == SortByTermFrom(entries, 1, <<>>)

\* insert x behind every entry whose lowercased term is not greater
InsertByLower(sorted, x) ==
    LET n == Cardinality({i \in 1..Len(sorted) :
                            ~StrLess(Lower(x.term), Lower(sorted[i].term))})
    IN  SubSeq(sorted, 1, n) \o <<x>> \o SubSeq(sorted, n + 1, Len(sorted))

RECURSIVE SortByLowerFrom(_, _, _)
SortByLowerFrom(entries, i, acc) ==
    IF i > Len(entries) THEN acc
    ELSE SortByLowerFrom(entries, i + 1, InsertByLower(acc, entries[i]))

\* sorted(entries, key=lambda x: x["term"].lower()): stable
SortedByLower(entries) == SortByLowerFrom(entries, 1, <<>>)


(***************************************************************************)
(* State.                                                                  *)
(***************************************************************************)
VARIABLES
    file,        \* the local file at JSONL_PATH
    file_ready,  \* _file_ready
    file_lock,   \* _file_lock: 0 when free, else the caller holding it
    pc,          \* where each caller is
    op,          \* what each caller called: "ensure", "search", "endpoint"
    args,        \* search_terms of the caller's search
    query,       \* the terms parameter of the caller's endpoint request
    chunk,       \* chunks the caller's download has written
    ens,         \* how the caller's ensure_testimonies_file ended, and its value
    ret,         \* what the caller's search or endpoint call returned
    calls,       \* calls started so far
    passes,      \* passes started so far (line 56 reached)
    okPasses,    \* passes that set _file_ready
    overlap,     \* every call so far started before any call returned
    readyAtCall, \* _file_ready when the caller's call started
    afterFail,   \* the call started right after a call whose fetch failed
    alone,       \* no other call was in flight during the caller's call
    fetched,     \* the caller's call reached the remote fetch
    lastExit,    \* how the last finished ensure_testimonies_file ended
    collab,      \* the caller's request at the external collaborator: calls
                 \* made, whether the last one succeeded, and its reply
    search_count \* search_count of app.py

vars == <<file, file_ready, file_lock, pc, op, args, query, collab,
          search_count, chunk, ens, ret, calls,
          passes, okPasses, overlap, readyAtCall, afterFail, alone, fetched,
          lastExit>>

NoEns == [exit |-> "none", n |-> 0]
NoRet == [kind |-> "none", res |-> <<>>, status |-> 0]
NoCollab == [calls |-> 0, ok |-> FALSE, reply |-> <<>>]

\* the positions between acquiring and releasing _file_lock
InPass == {"e_ptr", "d_get", "d_open", "d_write", "e_validate"}
InLock == InPass \cup {"e_recheck"}
Quiet == {"idle", "done"}

\* local files the service may find at start
StartFiles ==
    { Absent,
      File(<<Ptr, Bad>>),
      File(<<>>),
      File(<<Rec("a.docx", <<"a", "A">>, ""), Blank, Bad>>),
      Faulty("head", <<Rec("a.docx", <<"a">>, "")>>),
      Faulty("tail", <<Rec("a.docx", <<"a">>, "")>>) }

\* term lists of the searches that run beside provisioning
StoreTermLists == { <<>>, << <<"A">> >> }

InitCallers ==
    /\ file_ready = FALSE
    /\ file_lock = 0
    /\ pc = [c \in Callers |-> "idle"]
    /\ op = [c \in Callers |-> "none"]
    /\ args = [c \in Callers |-> <<>>]
    /\ query = [c \in Callers |-> <<>>]
    /\ chunk = [c \in Callers |-> 0]
    /\ ens = [c \in Callers |-> NoEns]
    /\ ret = [c \in Callers |-> NoRet]
    /\ calls = 0
    /\ passes = 0
    /\ okPasses = 0
    /\ overlap = TRUE
    /\ readyAtCall = [c \in Callers |-> FALSE]
    /\ afterFail = [c \in Callers |-> FALSE]
    /\ alone = [c \in Callers |-> FALSE]
    /\ fetched = [c \in Callers |-> FALSE]
    /\ lastExit = "none"
    /\ collab = [c \in Callers |-> NoCollab]
    /\ search_count = 0

Init ==
    /\ file \in StartFiles
    /\ InitCallers

(***************************************************************************)
(* A call starts.                                                          *)
(***************************************************************************)
Begin(c, what, terms, q) ==
    /\ pc[c] \in Quiet
    /\ calls < MaxCalls
    /\ calls' = calls + 1
    /\ op' = [op EXCEPT ![c] = what]
    /\ args' = [args EXCEPT ![c] = terms]
    /\ query' = [query EXCEPT ![c] = q]
    /\ pc' = [pc EXCEPT ![c] = "e_fast"]
    /\ chunk' = [chunk EXCEPT ![c] = 0]
    /\ ens' = [ens EXCEPT ![c] = NoEns]
    /\ ret' = [ret EXCEPT ![c] = NoRet]
    /\ overlap' = (overlap /\ \A d \in Callers : pc[d] # "done")
    /\ readyAtCall' = [readyAtCall EXCEPT ![c] = file_ready]
    /\ afterFail' = [afterFail EXCEPT ![c] = (lastExit = "fetch_fail")]
    /\ alone' = [d \in Callers |->
                    IF d = c THEN \A e \in Callers \ {c} : pc[e] \in Quiet
                    ELSE IF pc[d] \in Quiet THEN alone[d] ELSE FALSE]
    /\ fetched' = [fetched EXCEPT ![c] = FALSE]
    /\ collab' = [collab EXCEPT ![c] = NoCollab]
    /\ UNCHANGED <<file, file_ready, file_lock, passes, okPasses, lastExit,
                   search_count>>

CallEnsure(c) == Begin(c, "ensure", <<>>, <<>>)

CallSearch(c) == \E terms \in StoreTermLists : Begin(c, "search", terms, <<>>)

(***************************************************************************)
(* ensure_testimonies_file                                                 *)
(***************************************************************************)
\* the caller's ensure_testimonies_file ends: a plain call is done, a search
\* goes on to its scan unless the error escaped
Finish(c, how, n) ==
    /\ ens' = [ens EXCEPT ![c] = [exit |-> how, n |-> n]]
    /\ lastExit' = how
    /\ pc' = [pc EXCEPT ![c] =
                IF op[c] = "ensure" \/ how = "raise" THEN "done" ELSE "s_open"]
    /\ ret' = [ret EXCEPT ![c] =
                IF how = "raise" /\ op[c] = "search"
                THEN [kind |-> "raise", res |-> <<>>, status |-> 0]
                ELSE IF how = "raise" /\ op[c] = "endpoint"
                THEN [kind |-> "http", res |-> <<>>, status |-> 500]
                ELSE ret[c]]

\* a call that goes for the lock without looking at _file_ready
FastCheckSkipped(c) ==
    /\ pc[c] = "e_fast"
    /\ pc' = [pc EXCEPT ![c] = "e_lock"]
    /\ UNCHANGED <<file, file_ready, file_lock, op, args, query, collab,
                   search_count, chunk, ens, ret,
                   calls, passes, okPasses, overlap, readyAtCall, afterFail,
                   alone, fetched, lastExit>>

\* a call that also returns at once when the call before it failed to fetch
FastCheckStickyFailure(c) ==
    /\ pc[c] = "e_fast"
    /\ IF file_ready \/ lastExit = "fetch_fail"
       THEN Finish(c, "fast", -1)
       ELSE /\ pc' = [pc EXCEPT ![c] = "e_lock"]
            /\ UNCHANGED <<ens, ret, lastExit>>
    /\ UNCHANGED <<file, file_ready, file_lock, op, args, query, collab,
                   search_count, chunk, calls, passes,
                   okPasses, overlap, readyAtCall, afterFail, alone, fetched>>

\* line 49: if _file_ready: return -1
FastCheck(c) ==
    /\ pc[c] = "e_fast"
    /\ IF file_ready
       THEN Finish(c, "fast", -1)
       ELSE /\ pc' = [pc EXCEPT ![c] = "e_lock"]
            /\ UNCHANGED <<ens, ret, lastExit>>
    /\ UNCHANGED <<file, file_ready, file_lock, op, args, query, collab,
                   search_count, chunk, calls, passes,
                   okPasses, overlap, readyAtCall, afterFail, alone, fetched>>

\* a lock that is taken whether or not it is held
AcquireAnyway(c) ==
    /\ pc[c] = "e_lock"
    /\ file_lock' = c
    /\ pc' = [pc EXCEPT ![c] = "e_recheck"]
    /\ UNCHANGED <<file, file_ready, op, args, query, collab,
                   search_count, chunk, ens, ret, calls, passes,
                   okPasses, overlap, readyAtCall, afterFail, alone, fetched,
                   lastExit>>

\* line 52: with _file_lock
Acquire(c) ==
    /\ pc[c] = "e_lock"
    /\ file_lock = 0
    /\ file_lock' = c
    /\ pc' = [pc EXCEPT ![c] = "e_recheck"]
    /\ UNCHANGED <<file, file_ready, op, args, query, collab,
                   search_count, chunk, ens, ret, calls, passes,
                   okPasses, overlap, readyAtCall, afterFail, alone, fetched,
                   lastExit>>

\* a lock holder that does not look at _file_ready again
RecheckSkipped(c) ==
    /\ pc[c] = "e_recheck"
    /\ pc' = [pc EXCEPT ![c] = "e_ptr"]
    /\ passes' = passes + 1
    /\ UNCHANGED <<file, file_ready, file_lock, op, args, query, collab,
                   search_count, chunk, ens, ret,
                   calls, okPasses, overlap, readyAtCall, afterFail, alone,
                   fetched, lastExit>>

\* line 53: if _file_ready: return -1 (the lock is released on the way out)
Recheck(c) ==
    /\ pc[c] = "e_recheck"
    /\ IF file_ready
       THEN /\ Finish(c, "recheck", -1)
            /\ file_lock' = 0
            /\ UNCHANGED passes
       ELSE /\ pc' = [pc EXCEPT ![c] = "e_ptr"]
            /\ passes' = passes + 1
            /\ UNCHANGED <<ens, ret, lastExit, file_lock>>
    /\ UNCHANGED <<file, file_ready, op, args, query, collab,
                   search_count, chunk, calls, okPasses, overlap,
                   readyAtCall, afterFail, alone, fetched>>

\* line 56: if _is_lfs_pointer()
PointerCheck(c) ==
    /\ pc[c] = "e_ptr"
    /\ LET p == IsLfsPointer(file) IN
       IF p = "raise"
       THEN /\ Finish(c, "raise", 0)
            /\ file_lock' = 0
       ELSE /\ pc' = [pc EXCEPT ![c] = IF p = "true" THEN "d_get" ELSE "e_validate"]
            /\ UNCHANGED <<ens, ret, lastExit, file_lock>>
    /\ UNCHANGED <<file, file_ready, op, args, query, collab,
                   search_count, chunk, calls, passes, okPasses,
                   overlap, readyAtCall, afterFail, alone, fetched>>

\* a failed GET that returns with the lock still held
GetKeepsLock(c) ==
    /\ pc[c] = "d_get"
    /\ fetched' = [fetched EXCEPT ![c] = TRUE]
    /\ \E fails \in BOOLEAN :
         IF fails
         THEN /\ Finish(c, "fetch_fail", 0)
              /\ UNCHANGED file_lock
         ELSE /\ pc' = [pc EXCEPT ![c] = "d_open"]
              /\ UNCHANGED <<ens, ret, lastExit, file_lock>>
    /\ UNCHANGED <<file, file_ready, op, args, query, collab,
                   search_count, chunk, calls, passes, okPasses,
                   overlap, readyAtCall, afterFail, alone>>

\* lines 28-29: the GET and raise_for_status; it may fail (lines 60-62)
Get(c) ==
    /\ pc[c] = "d_get"
    /\ fetched' = [fetched EXCEPT ![c] = TRUE]
    /\ \E fails \in BOOLEAN :
         IF fails
         THEN /\ Finish(c, "fetch_fail", 0)
              /\ file_lock' = 0
         ELSE /\ pc' = [pc EXCEPT ![c] = "d_open"]
              /\ UNCHANGED <<ens, ret, lastExit, file_lock>>
    /\ UNCHANGED <<file, file_ready, op, args, query, collab,
                   search_count, chunk, calls, passes, okPasses,
                   overlap, readyAtCall, afterFail, alone>>

\* line 31: open(JSONL_PATH, "wb") creates or truncates the file
Open(c) ==
    /\ pc[c] = "d_open"
    /\ file' = File(<<>>)
    /\ chunk' = [chunk EXCEPT ![c] = 0]
    /\ pc' = [pc EXCEPT ![c] = "d_write"]
    /\ UNCHANGED <<file_ready, file_lock, op, args, query, collab,
                   search_count, ens, ret, calls, passes,
                   okPasses, overlap, readyAtCall, afterFail, alone, fetched,
                   lastExit>>

\* lines 32-34: the next chunk arrives and is written, the stream ends, or
\* the stream breaks (lines 60-62), possibly in the middle of a line
Write(c) ==
    /\ pc[c] = "d_write"
    /\ \E broken \in {"no", "between", "within"} :
         IF broken = "no"
         THEN /\ IF chunk[c] < Len(RemoteLines)
                 THEN /\ file' = [file EXCEPT !.lines = Append(@, RemoteLines[chunk[c] + 1])]
                      /\ chunk' = [chunk EXCEPT ![c] = @ + 1]
                      /\ UNCHANGED pc
                 ELSE /\ pc' = [pc EXCEPT ![c] = "e_validate"]
                      /\ UNCHANGED <<file, chunk>>
              /\ UNCHANGED <<ens, ret, lastExit, file_lock>>
         ELSE /\ chunk[c] < Len(RemoteLines)
              /\ file' = IF broken = "within"
                         THEN [file EXCEPT !.lines = Append(@, Bad)]
                         ELSE file
              /\ Finish(c, "fetch_fail", 0)
              /\ file_lock' = 0
              /\ UNCHANGED chunk
    /\ UNCHANGED <<file_ready, op, args, query, collab,
                   search_count, calls, passes, okPasses, overlap,
                   readyAtCall, afterFail, alone, fetched>>

\* a validation that sets _file_ready also when the file cannot be read
ValidateReadyAnyway(c) ==
    /\ pc[c] = "e_validate"
    /\ IF ~file.exists \/ file.fault # "none"
       THEN /\ Finish(c, "valid_fail", 0)
            /\ file_ready' = TRUE
            /\ UNCHANGED okPasses
       ELSE /\ Finish(c, "ok", CountNonBlank(file.lines))
            /\ file_ready' = TRUE
            /\ okPasses' = okPasses + 1
    /\ file_lock' = 0
    /\ UNCHANGED <<file, op, args, query, collab,
                   search_count, chunk, calls, passes, overlap,
                   readyAtCall, afterFail, alone, fetched>>

\* lines 64-76: count the non-blank lines and set _file_ready, or return 0
\* when the file cannot be read
Validate(c) ==
    /\ pc[c] = "e_validate"
    /\ IF ~file.exists \/ file.fault # "none"
       THEN /\ Finish(c, "valid_fail", 0)
            /\ UNCHANGED <<file_ready, okPasses>>
       ELSE /\ Finish(c, "ok", CountNonBlank(file.lines))
            /\ file_ready' = TRUE
            /\ okPasses' = okPasses + 1
    /\ file_lock' = 0
    /\ UNCHANGED <<file, op, args, query, collab,
                   search_count, chunk, calls, passes, overlap,
                   readyAtCall,
                   afterFail, alone, fetched>>

(***************************************************************************)
(* search_testimonies_content after its call of ensure_testimonies_file    *)
(***************************************************************************)
Results(c, res) ==
    IF op[c] = "endpoint"
    THEN [kind |-> "http", res |-> res, status |-> 200]
    ELSE [kind |-> "list", res |-> res, status |-> 0]

\* a search that treats an empty term list as an error
OpenScanEmptyIsError(c) ==
    /\ pc[c] = "s_open"
    /\ IF UniqueTerms(args[c]) = <<>>
       THEN /\ ret' = [ret EXCEPT ![c] = [kind |-> "raise", res |-> <<>>, status |-> 0]]
            /\ pc' = [pc EXCEPT ![c] = "done"]
       ELSE IF ~file.exists \/ file.fault = "head"
       THEN /\ ret' = [ret EXCEPT ![c] = Results(c, <<>>)]
            /\ pc' = [pc EXCEPT ![c] = "done"]
       ELSE /\ pc' = [pc EXCEPT ![c] = "s_read"]
            /\ UNCHANGED ret
    /\ UNCHANGED <<file, file_ready, file_lock, op, args, query, collab,
                   search_count, chunk, ens, calls, passes, okPasses, overlap,
                   readyAtCall, afterFail, alone, fetched, lastExit>>

\* lines 115-128: the unique terms; nothing to search for, or the file
\* cannot be opened (lines 145-147): the empty list
OpenScan(c) ==
    /\ pc[c] = "s_open"
    /\ IF UniqueTerms(args[c]) = <<>> \/ ~file.exists \/ file.fault = "head"
       THEN /\ ret' = [ret EXCEPT ![c] = Results(c, <<>>)]
            /\ pc' = [pc EXCEPT ![c] = "done"]
       ELSE /\ pc' = [pc EXCEPT ![c] = "s_read"]
            /\ UNCHANGED ret
    /\ UNCHANGED <<file, file_ready, file_lock, op, args, query, collab,
                   search_count, chunk, ens, calls,
                   passes, okPasses, overlap, readyAtCall, afterFail, alone,
                   fetched, lastExit>>

\* lines 129-150: scan, sort, return
ReadScan(c) ==
    /\ pc[c] = "s_read"
    /\ ret' = [ret EXCEPT ![c] = Results(c, ScanFile(file, UniqueTerms(args[c])))]
    /\ pc' = [pc EXCEPT ![c] = "done"]
    /\ UNCHANGED <<file, file_ready, file_lock, op, args, query, collab,
                   search_count, chunk, ens, calls,
                   passes, okPasses, overlap, readyAtCall, afterFail, alone,
                   fetched, lastExit>>

Step(c) ==
    \/ CallEnsure(c)
    \/ CallSearch(c)
    \/ FastCheck(c)
    \/ Acquire(c)
    \/ Recheck(c)
    \/ PointerCheck(c)
    \/ Get(c)
    \/ Open(c)
    \/ Write(c)
    \/ Validate(c)
    \/ OpenScan(c)
    \/ ReadScan(c)

Next == \E c \in Callers : Step(c)

Spec == Init /\ [][Next]_vars


(***************************************************************************)
(* The callers under fair scheduling.  Every thread that can take a step   *)
(* eventually takes one, calls keep coming while the call bound allows,    *)
(* and the remote fetch eventually succeeds: a fetch fails only while a    *)
(* further call is still to come.                                          *)
(***************************************************************************)
LiveGet(c) ==
    /\ Get(c)
    /\ calls = MaxCalls => ens'[c].exit # "fetch_fail"

LiveWrite(c) ==
    /\ Write(c)
    /\ calls = MaxCalls => ens'[c].exit # "fetch_fail"

\* the steps inside a call
Run(c) ==
    \/ FastCheck(c)
    \/ Acquire(c)
    \/ Recheck(c)
    \/ PointerCheck(c)
    \/ LiveGet(c)
    \/ Open(c)
    \/ LiveWrite(c)
    \/ Validate(c)
    \/ OpenScan(c)
    \/ ReadScan(c)

Call(c) ==
    \/ CallEnsure(c)
    \/ CallSearch(c)

NextLive == \E c \in Callers : Call(c) \/ Run(c)

Fairness == \A c \in Callers : WF_vars(Run(c)) /\ WF_vars(Call(c))

SpecLive == Init /\ [][NextLive]_vars /\ Fairness


(***************************************************************************)
(* The service after start-up, beside an environment that replaces or      *)
(* removes the local file between calls.                                   *)
(***************************************************************************)
\* app.py lines 26-30: lifespan calls ensure_testimonies_file once, before
\* any request is served, and catches what it raises
Startup(c) ==
    /\ \A d \in Callers : op[d] = "none"
    /\ op' = [op EXCEPT ![c] = "ensure"]
    /\ pc' = [pc EXCEPT ![c] = "e_fast"]
    /\ readyAtCall' = [readyAtCall EXCEPT ![c] = file_ready]
    /\ alone' = [alone EXCEPT ![c] = TRUE]
    /\ UNCHANGED <<file, file_ready, file_lock, args, query, collab,
                   search_count, chunk, ens, ret, calls, passes, okPasses,
                   overlap, afterFail, fetched, lastExit>>

\* lifespan has yielded: requests are served
StartupDone == lastExit # "none"

EnvSearch(c) == StartupDone /\ CallSearch(c)

\* what the environment may put at JSONL_PATH
EnvFiles ==
    { Absent,
      File(<<Rec("a.docx", <<"a", "A">>, ""), Blank, Bad>>),
      File(<<Rec("b.docx", <<"a">>, "")>>) }

\* the file at JSONL_PATH is replaced or removed while no call is running
Change(f) ==
    /\ file_ready
    /\ \A d \in Callers : pc[d] \in Quiet
    /\ f # file
    /\ file' = f
    /\ UNCHANGED <<file_ready, file_lock, pc, op, args, query, collab,
                   search_count, chunk, ens, ret, calls, passes, okPasses,
                   overlap, readyAtCall, afterFail, alone, fetched, lastExit>>

StepEnv(c) ==
    \/ Startup(c)
    \/ EnvSearch(c)
    \/ FastCheck(c)
    \/ Acquire(c)
    \/ Recheck(c)
    \/ PointerCheck(c)
    \/ Get(c)
    \/ Open(c)
    \/ Write(c)
    \/ Validate(c)
    \/ OpenScan(c)
    \/ ReadScan(c)

NextEnv ==
    \/ \E c \in Callers : StepEnv(c)
    \/ \E f \in EnvFiles : Change(f)

SpecEnv == Init /\ [][NextEnv]_vars


(***************************************************************************)
(* The content matcher on bounded inputs: one caller, one call, a local    *)
(* file that holds a corpus, and every term list or endpoint parameter up  *)
(* to the bounds.                                                          *)
(***************************************************************************)
SeqsUpTo(S, n) == UNION {[1..k -> S] : k \in 0..n}

ContentAlphabet == {"a", "A"}
QueryAlphabet == {"a", "A", " ", ","}

FileNames == <<"f1.docx", "f2.docx", "f3.docx", "f4.docx">>
Links == <<"", "http://x", "", "http://y">>

Contents == SeqsUpTo(ContentAlphabet, MaxContentLen)

\* the corpora of up to MaxRecs records, filenames unique
Corpora ==
    { [i \in 1..Len(cs) |-> Rec(FileNames[i], cs[i], Links[i])] :
        cs \in SeqsUpTo(Contents, MaxRecs) }

TermLists == SeqsUpTo(SeqsUpTo(ContentAlphabet, MaxTermLen), MaxTerms)

Queries == SeqsUpTo(QueryAlphabet, MaxQueryLen)

\* the corpus and the term of the specification's scenario
ScenarioCorpus ==
    << Rec("a.docx", <<"G","o","d"," ","h","e","a","l","e","d"," ","m","e"," ",
                       "o","f"," ","c","a","n","c","e","r">>, ""),
       Rec("b.docx", <<"c","a","n","c","e","r"," ","c","a","n","c","e","r"," ",
                       "t","r","e","a","t","m","e","n","t">>, "http://x") >>
ScenarioTerms == << <<"c","a","n","c","e","r">> >>

InitMatch ==
    /\ file \in {File(lines) : lines \in Corpora \cup {ScenarioCorpus}}
    /\ InitCallers

MatchSearch(c) ==
    /\ calls = 0
    /\ \E terms \in TermLists \cup {ScenarioTerms} : Begin(c, "search", terms, <<>>)

\* testimonies_search_endpoint, lines 237-245: a missing parameter or no
\* term left after trimming is answered 400, else the search is called
Endpoint(c, q) ==
    IF q = <<>> \/ ParseTerms(q) = <<>>
    THEN /\ pc[c] \in Quiet
         /\ calls < MaxCalls
         /\ calls' = calls + 1
         /\ op' = [op EXCEPT ![c] = "endpoint"]
         /\ query' = [query EXCEPT ![c] = q]
         /\ args' = [args EXCEPT ![c] = <<>>]
         /\ ens' = [ens EXCEPT ![c] = NoEns]
         /\ ret' = [ret EXCEPT ![c] = [kind |-> "http", res |-> <<>>, status |-> 400]]
         /\ pc' = [pc EXCEPT ![c] = "done"]
         /\ collab' = [collab EXCEPT ![c] = NoCollab]
         /\ UNCHANGED <<file, file_ready, file_lock, chunk, passes, okPasses,
                        overlap, readyAtCall, afterFail, alone, fetched, lastExit,
                        search_count>>
    ELSE Begin(c, "endpoint", ParseTerms(q), q)

MatchEndpoint(c) ==
    /\ calls = 0
    /\ \E q \in Queries : Endpoint(c, q)

NextMatch ==
    \/ MatchSearch(1)
    \/ MatchEndpoint(1)
    \/ FastCheck(1)
    \/ Acquire(1)
    \/ Recheck(1)
    \/ PointerCheck(1)
    \/ Validate(1)
    \/ OpenScan(1)
    \/ ReadScan(1)

SpecMatch == InitMatch /\ [][NextMatch]_vars


(***************************************************************************)
(* A search over files with malformed lines: one caller, one call, every   *)
(* file of up to MaxLines lines that are records, blank, not JSON, or JSON *)
(* that is not an object.                                                  *)
(***************************************************************************)
LineSet ==
    { Rec("a.docx", <<"a">>, ""),
      Rec("b.docx", <<"a", "a">>, "http://x"),
      Blank,
      Bad,
      NonObj }

LineFiles == {File(lines) : lines \in SeqsUpTo(LineSet, MaxLines)}

LineTermLists == { << <<"a">> >>, << <<"A">>, <<"a", "a">> >> }

InitLines ==
    /\ file \in LineFiles
    /\ InitCallers

LinesSearch(c) ==
    /\ calls = 0
    /\ \E terms \in LineTermLists : Begin(c, "search", terms, <<>>)

NextLines ==
    \/ LinesSearch(1)
    \/ FastCheck(1)
    \/ Acquire(1)
    \/ Recheck(1)
    \/ PointerCheck(1)
    \/ Validate(1)
    \/ OpenScan(1)
    \/ ReadScan(1)

SpecLines == InitLines /\ [][NextLines]_vars


(***************************************************************************)
(* The endpoints of app.py that call the external collaborator, beside the *)
(* flat-term search endpoint: one caller, one request, every query up to   *)
(* MaxQueryLen characters; a collaborator call succeeds with one of a few  *)
(* replies, or fails.                                                      *)
(***************************************************************************)
\* a request reaches its handler
Arrive(c, what, q, terms) ==
    /\ pc[c] \in Quiet
    /\ calls < MaxCalls
    /\ calls' = calls + 1
    /\ op' = [op EXCEPT ![c] = what]
    /\ query' = [query EXCEPT ![c] = q]
    /\ args' = [args EXCEPT ![c] = terms]
    /\ ens' = [ens EXCEPT ![c] = NoEns]
    /\ collab' = [collab EXCEPT ![c] = NoCollab]
    /\ UNCHANGED <<file, file_ready, file_lock, chunk, passes, okPasses, overlap,
                   readyAtCall, afterFail, alone, fetched, lastExit>>

\* what the collaborator raises, as str(e)
ApiError == <<"APIError">>

\* PassageQuery objects the collaborator may return
PassageReplies ==
    { [passages |-> <<>>, secondary_passages |-> <<>>],
      [passages |-> <<"John 3:16">>, secondary_passages |-> <<"Jonah 2:1-3:4">>] }

\* terms the collaborator may suggest
SuggestedTerms == { <<"B">>, <<"a">>, <<"b", "y">> }

SuggestedLists == SeqsUpTo(SuggestedTerms, MaxSuggested)

\* search_endpoint up to its call of parse_passages, app.py lines 126-142
SearchEndpoint(c, q) ==
    /\ Arrive(c, "search_endpoint", q, <<>>)
    /\ search_count' = search_count + 1
    /\ IF q = <<>>
       THEN /\ ret' = [ret EXCEPT ![c] = [kind |-> "http", res |-> <<>>, status |-> 400]]
            /\ pc' = [pc EXCEPT ![c] = "done"]
       ELSE /\ ret' = [ret EXCEPT ![c] = NoRet]
            /\ pc' = [pc EXCEPT ![c] = "p_call"]

\* a handler that answers a failed collaborator call with an empty result
ParsePassagesSwallowed(c) ==
    /\ pc[c] = "p_call"
    /\ \E ok \in BOOLEAN, reply \in PassageReplies :
          IF ok
          THEN /\ collab' = [collab EXCEPT ![c] =
                    [calls |-> collab[c].calls + 1, ok |-> TRUE, reply |-> reply]]
               /\ ret' = [ret EXCEPT ![c] = [kind |-> "http", res |-> reply, status |-> 200]]
          ELSE /\ collab' = [collab EXCEPT ![c] =
                    [calls |-> collab[c].calls + 1, ok |-> FALSE, reply |-> ApiError]]
               /\ ret' = [ret EXCEPT ![c] =
                    [kind |-> "http",
                     res |-> [passages |-> <<>>, secondary_passages |-> <<>>],
                     status |-> 200]]
    /\ pc' = [pc EXCEPT ![c] = "done"]
    /\ UNCHANGED <<file, file_ready, file_lock, op, args, query, search_count,
                   chunk, ens, calls, passes, okPasses, overlap, readyAtCall,
                   afterFail, alone, fetched, lastExit>>

\* parse_passages, bible_search.py lines 90-105, and the rest of
\* search_endpoint, app.py lines 142-164: one call of the collaborator; its
\* reply is answered 200, what it raises is raised again and answered 500
ParsePassages(c) ==
    /\ pc[c] = "p_call"
    /\ \E ok \in BOOLEAN, reply \in PassageReplies :
          IF ok
          THEN /\ collab' = [collab EXCEPT ![c] =
                    [calls |-> collab[c].calls + 1, ok |-> TRUE, reply |-> reply]]
               /\ ret' = [ret EXCEPT ![c] = [kind |-> "http", res |-> reply, status |-> 200]]
          ELSE /\ collab' = [collab EXCEPT ![c] =
                    [calls |-> collab[c].calls + 1, ok |-> FALSE, reply |-> ApiError]]
               /\ ret' = [ret EXCEPT ![c] = [kind |-> "http", res |-> ApiError, status |-> 500]]
    /\ pc' = [pc EXCEPT ![c] = "done"]
    /\ UNCHANGED <<file, file_ready, file_lock, op, args, query, search_count,
                   chunk, ens, calls, passes, okPasses, overlap, readyAtCall,
                   afterFail, alone, fetched, lastExit>>

\* testimonies_suggest_endpoint up to its call of suggest_terms, app.py
\* lines 188-200: only a missing query is answered 400
TestimoniesSuggestEndpoint(c, q) ==
    /\ Arrive(c, "suggest_endpoint", q, IF q = <<>> THEN <<>> ELSE ParseTerms(q))
    /\ UNCHANGED search_count
    /\ IF q = <<>>
       THEN /\ ret' = [ret EXCEPT ![c] = [kind |-> "http", res |-> <<>>, status |-> 400]]
            /\ pc' = [pc EXCEPT ![c] = "done"]
       ELSE /\ ret' = [ret EXCEPT ![c] = NoRet]
            /\ pc' = [pc EXCEPT ![c] = "g_call"]

\* suggest_terms, testimony_search.py lines 176-198, and the rest of
\* testimonies_suggest_endpoint, app.py lines 200-217
SuggestTerms(c) ==
    /\ pc[c] = "g_call"
    /\ \E ok \in BOOLEAN, raw_terms \in SuggestedLists :
          IF ok
          THEN /\ collab' = [collab EXCEPT ![c] =
                    [calls |-> collab[c].calls + 1, ok |-> TRUE, reply |-> raw_terms]]
               /\ ret' = [ret EXCEPT ![c] =
                    [kind |-> "http",
                     res |-> [queryTerms |-> QueryTerms(args[c]),
                              suggestions |-> SortedByLower(Enrich(raw_terms))],
                     status |-> 200]]
          ELSE /\ collab' = [collab EXCEPT ![c] =
                    [calls |-> collab[c].calls + 1, ok |-> FALSE, reply |-> ApiError]]
               /\ ret' = [ret EXCEPT ![c] = [kind |-> "http", res |-> ApiError, status |-> 500]]
    /\ pc' = [pc EXCEPT ![c] = "done"]
    /\ UNCHANGED <<file, file_ready, file_lock, op, args, query, search_count,
                   chunk, ens, calls, passes, okPasses, overlap, readyAtCall,
                   afterFail, alone, fetched, lastExit>>

HttpSearch(c) ==
    /\ calls = 0
    /\ \E q \in Queries : SearchEndpoint(c, q)

HttpSuggest(c) ==
    /\ calls = 0
    /\ \E q \in Queries : TestimoniesSuggestEndpoint(c, q)

InitHttp ==
    /\ file = File(<<Rec("a.docx", <<"a", "A">>, "")>>)
    /\ InitCallers

NextHttp ==
    \/ HttpSearch(1)
    \/ ParsePassages(1)
    \/ HttpSuggest(1)
    \/ SuggestTerms(1)
    \/ MatchEndpoint(1)
    \/ FastCheck(1)
    \/ Acquire(1)
    \/ Recheck(1)
    \/ PointerCheck(1)
    \/ Validate(1)
    \/ OpenScan(1)
    \/ ReadScan(1)

SpecHttp == InitHttp /\ [][NextHttp]_vars


(***************************************************************************)
(* generate_derivatives on bounded inputs: one call on every word up to    *)
(* MaxWordLen characters, and on the words of the specification's examples.*)
(***************************************************************************)
WordAlphabet == {"s", "i", "n", "e", "y", " ", "E"}

ExampleWords ==
    { <<"h","o","p","e">>, <<"p","r","a","y">>, <<"s","i","n">>,
      <<" ","H","o","p","e"," ">> }

Words == SeqsUpTo(WordAlphabet, MaxWordLen) \cup ExampleWords

DeriveCall(c) ==
    /\ calls = 0
    /\ \E w \in Words :
          /\ op' = [op EXCEPT ![c] = "derive"]
          /\ args' = [args EXCEPT ![c] = <<w>>]
          /\ ret' = [ret EXCEPT ![c] = [kind |-> "list",
                                        res |-> GenerateDerivatives(w),
                                        status |-> 0]]
    /\ pc' = [pc EXCEPT ![c] = "done"]
    /\ calls' = calls + 1
    /\ UNCHANGED <<file, file_ready, file_lock, query, collab, search_count,
                   chunk, ens, passes, okPasses, overlap, readyAtCall,
                   afterFail, alone, fetched, lastExit>>

InitDerive ==
    /\ file = Absent
    /\ InitCallers

NextDerive == DeriveCall(1)

SpecDerive == InitDerive /\ [][NextDerive]_vars


(***************************************************************************)
(* The claims about ensure_testimonies_file, checked under Spec.           *)
(***************************************************************************)
Done(c) == pc[c] = "done"

\* the caller's ensure_testimonies_file has returned or raised
Ensured(c) == ens[c].exit # "none"

\* the entries of a local file: its lines that are not blank
Entries(f) == Cardinality({i \in 1..Len(f.lines) : f.lines[i].kind # "blank"})

\* the file is missing, or it can be read and its first line has the marker
MissingOrPointer(f) ==
    \/ ~f.exists
    \/ f.fault # "head" /\ f.lines # <<>> /\ f.lines[1].kind = "ptr"

\* C1 as stated: callers that all start before any of them returns run at
\* most one fetch-and-validate pass between them, whether it succeeds or
\* fails (in the fetch or in the validation), and all of them end with the
\* same view of readiness.
C1_OnePassWhateverOutcome ==
    overlap /\ (\A c \in Callers : ens[c].exit # "raise") =>
        /\ passes <= 1
        /\ \A c, d \in Callers :
              Ensured(c) /\ Ensured(d) =>
                 (ens[c].exit \in {"fetch_fail", "valid_fail"}
                    <=> ens[d].exit \in {"fetch_fail", "valid_fail"})

\* C1 amended: at most one pass succeeds and no pass runs once the store is
\* ready; a pass that failed may be followed by the pass of another caller,
\* one pass per call at most; a call that returned -1 or a count saw the
\* store ready.
C1_AtMostOneSuccessfulPass ==
    /\ okPasses <= 1
    /\ passes <= calls
    /\ (okPasses = 1 <=> file_ready)
    /\ file_ready => \A c \in Callers : pc[c] \notin InPass
    /\ \A c \in Callers :
          ens[c].exit \in {"fast", "recheck", "ok"} => file_ready

\* two callers that overlap: one ran the pass that succeeded, the other
\* found the store ready after waiting for the lock
C1_Witness ==
    /\ overlap
    /\ passes = 1
    /\ \E c, d \in Callers :
          /\ Done(c) /\ ens[c].exit = "ok"
          /\ Done(d) /\ ens[d].exit = "recheck"

\* C2: at most one caller is between acquiring and releasing the lock, and
\* it is the one recorded as the holder; so downloads never overlap and no
\* caller validates while another downloads.
C2_MutualExclusion ==
    /\ Cardinality({c \in Callers : pc[c] \in InLock}) <= 1
    /\ \A c \in Callers : pc[c] \in InLock => file_lock = c
    /\ \A c, d \in Callers :
          c # d /\ pc[c] \in {"d_open", "d_write"} =>
             pc[d] \notin {"d_open", "d_write", "e_validate"}

\* a download has written a chunk while another caller waits for the lock
C2_Witness ==
    \E c, d \in Callers :
       /\ pc[c] = "d_write" /\ chunk[c] >= 1
       /\ pc[d] = "e_lock"

\* the call that ran the successful pass returned the number of entries of
\* the file; a call that starts when the store is ready never takes the
\* lock, never fetches and returns -1
C3_ReadyState ==
    /\ \A c \in Callers :
          ens[c].exit = "ok" => ens[c].n = Entries(file)
    /\ \A c \in Callers :
          readyAtCall[c] =>
             /\ pc[c] \notin InLock \cup {"e_lock"}
             /\ ~fetched[c]
             /\ Ensured(c) => ens[c] = [exit |-> "fast", n |-> -1]

\* the step of a call that started when the store was ready changes nothing
\* of the store
C3_ReadyStep ==
    \A c \in Callers :
       readyAtCall[c] /\ pc[c] = "e_fast" /\ pc'[c] # "e_fast" =>
          /\ ens'[c].n = -1
          /\ UNCHANGED <<file, file_ready, file_lock, passes, okPasses>>

\* C3: once the store is ready ensure_testimonies_file is idempotent: the
\* state part holds in every state and the step part of every step.
C3_IdempotentOnceReady == [](C3_ReadyState) /\ [][C3_ReadyStep]_vars

\* a call that started after readiness returned -1, and the call that did
\* the work returned a count of at least one entry
C3_Witness ==
    \E c, d \in Callers :
       /\ readyAtCall[c] /\ Done(c) /\ op[c] = "ensure" /\ ens[c].n = -1
       /\ ens[d].exit = "ok" /\ ens[d].n >= 1

\* a call whose fetch or validation fails returns 0 and leaves the flag
\* unset; the flag is set only by the step of a call that returns the
\* number of entries of the file
C4_FailStep ==
    /\ \A c \in Callers :
          ens'[c] # ens[c] /\ ens'[c].exit \in {"fetch_fail", "valid_fail"} =>
             ens'[c].n = 0 /\ ~file_ready /\ ~file_ready'
    /\ file_ready' # file_ready =>
          /\ file_ready'
          /\ \E c \in Callers :
                /\ ens'[c] # ens[c]
                /\ ens'[c].exit = "ok"
                /\ ens'[c].n = Entries(file)

\* C4: every step of every behaviour keeps failure and readiness apart: a
\* failed fetch or validation returns 0 with the flag unset, and the flag is
\* set only together with the return of the entry count.
C4_FailureLeavesNotReady == [][C4_FailStep]_vars

\* a download broke after writing, the call returned 0, the store is not ready
C4_Witness ==
    \E c \in Callers :
       /\ Done(c) /\ ens[c] = [exit |-> "fetch_fail", n |-> 0]
       /\ file.exists /\ file.lines # <<>>
       /\ ~file_ready

\* C5 as stated: a call that starts right after a call whose fetch failed,
\* and runs with no other call in flight, fetches again.
C5_RetryAfterFailedFetch ==
    \A c \in Callers :
       afterFail[c] /\ alone[c] /\ Ensured(c) => fetched[c]

\* the pointer check is followed by the fetch exactly when the file is
\* missing or its first line has the marker; the file changes only by the
\* download of the lock holder, and the download truncates only a file that
\* is missing or a pointer
C6_FetchStep ==
    /\ \A c \in Callers :
          pc[c] = "e_ptr" /\ pc'[c] # "e_ptr" =>
             (pc'[c] = "d_get" <=> MissingOrPointer(file))
    /\ file' # file =>
          \E c \in Callers :
             /\ pc[c] \in {"d_open", "d_write"}
             /\ file_lock = c
             /\ pc[c] = "d_open" => MissingOrPointer(file)

\* C6: in every step, the fetch follows the pointer check if and only if
\* the file is missing or a pointer, and a file that is there and no pointer
\* is never overwritten.
C6_FetchIffMissingOrPointer == [][C6_FetchStep]_vars

\* a file that is there and no pointer was validated as it was, not fetched
C6_Witness ==
    \E c \in Callers :
       /\ ens[c].exit = "ok" /\ ~fetched[c]
       /\ file = File(<<Rec("a.docx", <<"a", "A">>, ""), Blank, Bad>>)

\* C7 as stated: no call of ensure_testimonies_file or of
\* search_testimonies_content ends with an error raised to its caller.
C7_NothingRaised ==
    \A c \in Callers : ens[c].exit # "raise" /\ ret[c].kind # "raise"


(***************************************************************************)
(* The claims about the content matcher, checked under SpecMatch.          *)
(***************************************************************************)
\* the caller's search has returned a result list
Answered(c) ==
    /\ Done(c)
    /\ \/ ret[c].kind = "list"
       \/ ret[c].kind = "http" /\ ret[c].status = 200

IndexSet(seq) == 1..Len(seq)

\* t is a substring of s
Occurs(s, t) == \E i \in 1..(Len(s) + 1) : MatchAt(s, t, i)

\* the lowercased search terms, as a set
LoweredTerms(terms) == {Lower(terms[i]) : i \in IndexSet(terms)}

\* the positions of the lines of the file that hold a record with a hit
HitLines(f, terms) ==
    { i \in IndexSet(f.lines) :
        /\ f.lines[i].kind = "rec"
        /\ \E t \in LoweredTerms(terms) : Occurs(Lower(f.lines[i].content), t) }

\* the position in the file of the record an entry of the result names
LineOf(f, entry) ==
    CHOOSE i \in IndexSet(f.lines) : f.lines[i].filename = entry.filename

\* C8: the result holds one entry for each record with a hit and nothing
\* else, every entry with a hitCount of at least 1, in descending order of
\* hitCount, entries of equal hitCount in the order of the file.
C8_RankedHits ==
    \A c \in Callers :
       Answered(c) =>
          LET res == ret[c].res IN
          /\ \A k \in IndexSet(res) :
                /\ res[k].hitCount >= 1
                /\ \E i \in HitLines(file, args[c]) :
                      /\ res[k].filename = file.lines[i].filename
                      /\ res[k].link = file.lines[i].link
          /\ {LineOf(file, res[k]) : k \in IndexSet(res)} = HitLines(file, args[c])
          /\ Len(res) = Cardinality(HitLines(file, args[c]))
          /\ \A j, k \in IndexSet(res) :
                j < k =>
                   /\ res[j].hitCount >= res[k].hitCount
                   /\ res[j].hitCount = res[k].hitCount =>
                         LineOf(file, res[j]) < LineOf(file, res[k])

\* two records with the same hitCount came back in the order of the file
C8_Witness ==
    \E c \in Callers :
       /\ Answered(c)
       /\ Len(ret[c].res) = 2
       /\ ret[c].res[1].hitCount = ret[c].res[2].hitCount
       /\ ret[c].res[1].filename = "f1.docx"
       /\ ret[c].res[2].filename = "f2.docx"

\* the positions at which t occurs in s
Occurrences(s, t) == {i \in 1..(Len(s) + 1) : MatchAt(s, t, i)}

\* positions of occurrences no two of which share a character
Disjoint(P, t) == \A i, j \in P : i < j => i + Len(t) <= j

\* the number of non-overlapping occurrences of t in s: the most occurrences
\* that can be taken without two of them sharing a character; the empty
\* term occurs once at every position, the end included
NonOverlapping(s, t) ==
    IF t = <<>> THEN Cardinality(Occurrences(s, t))
    ELSE LET sizes == {Cardinality(P) :
                          P \in {Q \in SUBSET Occurrences(s, t) : Disjoint(Q, t)}}
         IN  CHOOSE n \in sizes : \A m \in sizes : m <= n

RECURSIVE SumOver(_, _)
SumOver(S, s) ==
    IF S = {} THEN 0
    ELSE LET t == CHOOSE x \in S : TRUE
         IN  NonOverlapping(s, t) + SumOver(S \ {t}, s)

\* C9: the hitCount of an entry is the sum, over the distinct lowercased
\* terms, of the non-overlapping occurrences of the term in the lowercased
\* content of its record; and the scenario of the two cancer records.
C9_HitCountIsOccurrenceSum ==
    \A c \in Callers :
       Answered(c) =>
          /\ \A k \in IndexSet(ret[c].res) :
                ret[c].res[k].hitCount =
                   SumOver(LoweredTerms(args[c]),
                           Lower(file.lines[LineOf(file, ret[c].res[k])].content))
          /\ file.lines = ScenarioCorpus /\ args[c] = ScenarioTerms =>
                ret[c].res =
                   << [filename |-> "b.docx", link |-> "http://x", hitCount |-> 2],
                      [filename |-> "a.docx", link |-> "", hitCount |-> 1] >>

\* a term that overlaps itself in the content was counted once
C9_Witness ==
    \E c \in Callers :
       /\ Answered(c)
       /\ args[c] = << <<"a", "a">> >>
       /\ file.lines = << Rec("f1.docx", <<"a", "A", "a">>, "") >>
       /\ ret[c].res = << [filename |-> "f1.docx", link |-> "", hitCount |-> 1] >>

\* a term with nothing left after trimming
BlankTerm(t) == \A i \in IndexSet(t) : IsSpace(t[i])

\* the terms of the list in order, lowercased, without the blank ones and
\* without a term that stands earlier in the list
Normalized(terms) ==
    LET kept == SelectSeq(terms, LAMBDA t : ~BlankTerm(t))
        first == { i \in IndexSet(kept) :
                     \A j \in 1..(i - 1) : Lower(kept[j]) # Lower(kept[i]) }
        RECURSIVE Pick(_)
        Pick(i) == IF i > Len(kept) THEN <<>>
                   ELSE IF i \in first THEN <<Lower(kept[i])>> \o Pick(i + 1)
                   ELSE Pick(i + 1)
    IN  Pick(1)

\* C10 as stated: search_testimonies_content scores the list it is given as
\* it scores that list without its blank terms.
C10_MatchDropsBlankTerms ==
    \A c \in Callers :
       Answered(c) /\ op[c] = "search" =>
          ret[c].res = ScanFile(file, Normalized(args[c]))

\* C10 amended: the flat-term search endpoint trims the comma-separated
\* terms and drops the blank ones, and search_testimonies_content
\* lowercases and deduplicates what it is given; a request is scored by the
\* normalized list of its pieces, and refused when that list is empty.
C10_EndpointNormalizesTerms ==
    \A c \in Callers :
       Done(c) /\ op[c] = "endpoint" =>
          LET pieces == [i \in IndexSet(Split(query[c])) |-> Strip(Split(query[c])[i])]
          IN  /\ ret[c].status = 400 <=> Normalized(pieces) = <<>>
              /\ ret[c].status = 200 =>
                    /\ UniqueTerms(args[c]) = Normalized(pieces)
                    /\ ret[c].res = ScanFile(file, Normalized(pieces))

\* a request with a blank piece after its term was answered with a hit
C10_Witness ==
    \E c \in Callers :
       /\ Answered(c) /\ op[c] = "endpoint"
       /\ query[c] = <<"A", ",", " ">>
       /\ Len(ret[c].res) >= 1



(***************************************************************************)
(* The claims about empty inputs, checked under SpecMatch.                 *)
(***************************************************************************)
\* the records of a file: its lines that parse as objects
Records(f) == {i \in IndexSet(f.lines) : f.lines[i].kind = "rec"}

\* C11: a search answers the empty list, and not an error, whenever no term
\* is left after deduplication, whatever the corpus, and whenever the corpus
\* has no record, whatever the terms.
C11_EmptyTermsOrEmptyCorpus ==
    \A c \in Callers :
        (/\ Done(c)
         /\ op[c] = "search"
         /\ (LoweredTerms(args[c]) = {} \/ Records(file) = {}))
        => ret[c] = [kind |-> "list", res |-> <<>>, status |-> 0]

C11_Witness ==
    \E c \in Callers :
        /\ Done(c)
        /\ op[c] = "search"
        /\ args[c] = <<>>
        /\ Records(file) # {}
        /\ ret[c] = [kind |-> "list", res |-> <<>>, status |-> 0]


(***************************************************************************)
(* The claims about malformed lines, checked under SpecLines.              *)
(***************************************************************************)
Malformed(line) == line.kind \in {"blank", "bad", "nonobj"}

\* the sequence without its i-th element
Remove(seq, i) == [k \in 1..(Len(seq) - 1) |-> IF k < i THEN seq[k] ELSE seq[k + 1]]

\* C12: a malformed line (blank, not JSON, or JSON that is not an object) is
\* skipped: the search returns what it returns over the same file without
\* that line.
C12_MalformedLineSkipped ==
    \A c \in Callers :
        (Done(c) /\ op[c] = "search")
        => \A i \in IndexSet(file.lines) :
              Malformed(file.lines[i])
              => /\ ret[c].kind = "list"
                 /\ ret[c].res = ScanFile(File(Remove(file.lines, i)),
                                          UniqueTerms(args[c]))

\* C14: the count returned by the validating call is the number of
\* well-formed non-empty lines of the file, the records a search scores;
\* non-empty lines that do not parse are not counted.
C14_CountIsScoredRecords ==
    \A c \in Callers :
        ens[c].exit = "ok" => ens[c].n = Cardinality(Records(file))


(***************************************************************************)
(* The claim about reuse of the loaded corpus, checked under SpecEnv.      *)
(***************************************************************************)
\* C13: once the store is ready, two searches with the same term list
\* return the same result, even if the local file is changed or removed
\* between them.
C13_SameResultOnceReady ==
    \A c, d \in Callers :
        (/\ Done(c) /\ Done(d)
         /\ op[c] = "search" /\ op[d] = "search"
         /\ readyAtCall[c] /\ readyAtCall[d]
         /\ args[c] = args[d])
        => ret[c] = ret[d]


(***************************************************************************)
(* The claims about generate_derivatives, checked under SpecDerive.        *)
(***************************************************************************)
Derived(c) == Done(c) /\ op[c] = "derive"

\* the elements of a sequence
Elements(seq) == {seq[i] : i \in IndexSet(seq)}

\* the word without the whitespace around it
Bare(w) ==
    LET inner == {i \in IndexSet(w) : ~IsSpace(w[i])}
        lo == CHOOSE i \in inner : \A j \in inner : i <= j
        hi == CHOOSE i \in inner : \A j \in inner : j <= i
    IN  IF inner = {} THEN <<>>
        ELSE [k \in 1..(hi - lo + 1) |-> w[lo + k - 1]]

\* the word without the whitespace around it, in lowercase
Trimmed(w) == [k \in IndexSet(Bare(w)) |-> LowerChar(Bare(w)[k])]

\* C15: the derivatives of a word never contain the trimmed, lowercased
\* word itself, and there are none when the trimmed, lowercased word has
\* fewer than two characters.
C15_NeverTheWordItself ==
    \A c \in Callers :
        Derived(c)
        => /\ Trimmed(args[c][1]) \notin Elements(ret[c].res)
           /\ Len(Trimmed(args[c][1])) < 2 => ret[c].res = <<>>

C15_Witness ==
    \E c \in Callers :
        /\ Derived(c)
        /\ args[c][1] = <<" ", "E">>
        /\ ret[c].res = <<>>

\* C16: the derivatives of "hope" include "hoped", "hoping" and "hopes",
\* those of "pray" include "prays", "prayed" and "praying", and those of
\* "sin" include "sinning" and "sinned".
C16_Examples ==
    \A c \in Callers :
        Derived(c)
        => /\ args[c][1] = <<"h","o","p","e">>
              => { <<"h","o","p","e","d">>, <<"h","o","p","i","n","g">>,
                   <<"h","o","p","e","s">> } \subseteq Elements(ret[c].res)
           /\ args[c][1] = <<"p","r","a","y">>
              => { <<"p","r","a","y","s">>, <<"p","r","a","y","e","d">>,
                   <<"p","r","a","y","i","n","g">> } \subseteq Elements(ret[c].res)
           /\ args[c][1] = <<"s","i","n">>
              => { <<"s","i","n","n","i","n","g">>, <<"s","i","n","n","e","d">> }
                   \subseteq Elements(ret[c].res)

C16_Witness ==
    \E c \in Callers :
        /\ Derived(c)
        /\ args[c][1] = <<"s","i","n">>
        /\ <<"s","i","n","n","e","d">> \in Elements(ret[c].res)


(***************************************************************************)
(* The claims about the endpoints, checked under SpecHttp.                 *)
(***************************************************************************)
\* the suggestion request was answered 200
Suggested(c) ==
    /\ Done(c)
    /\ op[c] = "suggest_endpoint"
    /\ ret[c].status = 200

\* how many entries of the sequence equal x
Times(seq, x) == Cardinality({i \in IndexSet(seq) : seq[i] = x})

\* C17: the enriched suggestions hold exactly one entry per suggested term,
\* and they are sorted ascending by lowercased term.
C17_OneEntryPerTermSorted ==
    \A c \in Callers :
        Suggested(c)
        => LET raw == collab[c].reply
               out == ret[c].res.suggestions
               terms == [i \in IndexSet(out) |-> out[i].term]
           IN  /\ Len(out) = Len(raw)
               /\ \A t \in Elements(raw) \cup Elements(terms) :
                      Times(terms, t) = Times(raw, t)
               /\ \A i, j \in IndexSet(out) :
                      i < j => ~StrLess(Lower(out[j].term), Lower(out[i].term))

C17_Witness ==
    \E c \in Callers :
        /\ Suggested(c)
        /\ collab[c].reply = << <<"a">>, <<"B">> >>
        /\ Len(ret[c].res.suggestions) = 2
        /\ ret[c].res.suggestions[1].term = <<"a">>

\* the pieces between the commas of a query
Pieces(q) ==
    LET commas == {i \in IndexSet(q) : q[i] = ","}
        starts == {1} \cup {i + 1 : i \in commas}
        EndOf(a) == IF \E i \in commas : i >= a
                    THEN (CHOOSE i \in commas : i >= a /\ \A j \in commas : j >= a => i <= j) - 1
                    ELSE Len(q)
        RECURSIVE From(_)
        From(a) == IF a \notin starts THEN <<>>
                   ELSE <<SubSeq(q, a, EndOf(a))>> \o From(EndOf(a) + 2)
    IN  From(1)

\* the user's terms: the trimmed pieces that are not empty, in their order
UserTerms(q) ==
    SelectSeq([i \in IndexSet(Pieces(q)) |-> Bare(Pieces(q)[i])], LAMBDA t : t # <<>>)

\* C18: queryTerms of the suggestion endpoint holds one entry for each
\* trimmed, non-empty term of the user in the user's order, and the
\* derivatives of each entry are the derivatives of its term, without
\* duplicates and sorted alphabetically.
C18_QueryTermsInOrder ==
    \A c \in Callers :
        Suggested(c)
        => LET out == ret[c].res.queryTerms
               user == UserTerms(query[c])
           IN  /\ Len(out) = Len(user)
               /\ \A i \in IndexSet(out) :
                      /\ out[i].term = user[i]
                      /\ Elements(out[i].derivatives)
                            = Elements(GenerateDerivatives(user[i]))
                      /\ \A j, k \in IndexSet(out[i].derivatives) :
                            j < k => StrLess(out[i].derivatives[j],
                                             out[i].derivatives[k])

C18_Witness ==
    \E c \in Callers :
        /\ Suggested(c)
        /\ query[c] = <<"A", ",", "a">>
        /\ Len(ret[c].res.queryTerms) = 2
        /\ ret[c].res.queryTerms[1].term = <<"A">>

\* the request supplies no query: the empty string or, on the endpoints
\* that take comma-separated terms, no term left after trimming
EmptyInput(c) ==
    \/ query[c] = <<>>
    \/ op[c] \in {"suggest_endpoint", "endpoint"} /\ UserTerms(query[c]) = <<>>

\* C19: on the search, suggestion and flat-term search endpoints a request
\* that supplies no query or terms is answered 400, and neither the
\* collaborator nor the content matcher is invoked.
C19_EmptyInputIs400 ==
    \A c \in Callers :
        (/\ Done(c)
         /\ op[c] \in {"search_endpoint", "suggest_endpoint", "endpoint"}
         /\ EmptyInput(c))
        => /\ ret[c].status = 400
           /\ collab[c].calls = 0
           /\ ens[c].exit = "none"

\* the request called the collaborator and the call failed
CollaboratorFailed(c) ==
    /\ Done(c)
    /\ op[c] \in {"search_endpoint", "suggest_endpoint"}
    /\ collab[c].calls > 0
    /\ ~collab[c].ok

\* C20: a search or suggestion request calls the collaborator at most
\* once, and when the call fails the request is answered 5xx with the
\* error, never 200.
C20_FailureNotRetriedNotSwallowed ==
    \A c \in Callers :
        /\ collab[c].calls <= 1
        /\ CollaboratorFailed(c)
           => /\ ret[c].status >= 500
              /\ ret[c].res = collab[c].reply

C20_Witness ==
    \E c \in Callers :
        /\ CollaboratorFailed(c)
        /\ op[c] = "search_endpoint"
        /\ ret[c].status = 500


(***************************************************************************)
(* The claims about progress, checked under SpecLive.                      *)
(***************************************************************************)
\* some call returned the count of the entries of the local file
CountReturned == \E c \in Callers : ens[c].exit = "ok" /\ ens[c].n = Entries(file)

\* C21: a failed provisioning attempt does not block later ones: while the
\* store is not ready and the local file is missing, a pointer or readable,
\* calls that keep coming and a fetch that eventually succeeds lead to a
\* call that returns the entry count and to a ready store.
C21_EventuallyReady ==
    (~file_ready /\ file.fault = "none") ~> (file_ready /\ CountReturned)

C21_Witness ==
    \E c \in Callers :
        /\ afterFail[c]
        /\ fetched[c]
        /\ ens[c].exit = "ok"
        /\ file_ready

\* the caller is inside a call of ensure_testimonies_file
Ensuring(c) == pc[c] \in {"e_fast", "e_lock"} \cup InLock

\* the lock is held only by a caller between lines 52 and 76
LockHeldInside ==
    \A c \in Callers : file_lock = c <=> pc[c] \in InLock

\* some caller can take a step whenever a caller is inside a call
NoDeadlock ==
    (\E c \in Callers : Ensuring(c)) => \E c \in Callers : ENABLED Run(c)

\* C22: every call of ensure_testimonies_file terminates when its fetch
\* does: the lock is released on every way out (success, failed fetch,
\* failed validation, escaping error), a caller waiting for the lock gets
\* it, and no state is reachable in which the callers block each other.
C22_EveryCallTerminates ==
    /\ [](LockHeldInside /\ NoDeadlock)
    /\ \A c \in Callers : Ensuring(c) ~> ens[c].exit # "none"

C22_Witness ==
    \E c, d \in Callers :
        /\ ens[c].exit = "raise"
        /\ file_lock = d
        /\ pc[d] \in InLock


(***************************************************************************)
(* The claims about the file during and after a download, checked under    *)
(* Spec.                                                                   *)
(***************************************************************************)
\* the caller's search has the file open and reads it (lines 127-144)
Scanning(c) == pc[c] = "s_read"

\* the caller's download has the file open for writing (lines 31-34)
Writing(c) == pc[c] = "d_write"

\* C23: the scan of a search and the download write of another caller's
\* provisioning pass never overlap, also after a failed provisioning
\* attempt.
C23_ScanAndWriteDisjoint ==
    \A c, d \in Callers : ~(Scanning(c) /\ Writing(d))

\* the file is what a download that broke mid-stream leaves: a proper
\* prefix of the remote file, possibly followed by a cut line (no file of
\* StartFiles has this shape)
Truncated(f) ==
    /\ f.exists
    /\ \E k \in 0..(Len(RemoteLines) - 1) :
          \/ k > 0 /\ f.lines = SubSeq(RemoteLines, 1, k)
          \/ f.lines = Append(SubSeq(RemoteLines, 1, k), Bad)

\* C24: the store is never ready over a partially downloaded file: a
\* download that failed mid-stream never leads to readiness over the
\* truncated file, on that call or a later one.
C24_NeverReadyOnPartialFile ==
    file_ready => ~Truncated(file)


(***************************************************************************)
(* The claim about the term list as a set, checked under SpecMatch.        *)
(***************************************************************************)
\* C25: the result of a search depends only on the set of lowercased
\* terms: over the same file, every term list with the same set (a
\* permutation, a repeated term, a term in another letter case) gives the
\* same records, hit counts and order.
C25_OnlyTheSetOfTerms ==
    \A c \in Callers :
        (Answered(c) /\ op[c] = "search")
        => \A other \in TermLists :
              LoweredTerms(other) = LoweredTerms(args[c])
              => ret[c].res = ScanFile(file, UniqueTerms(other))

C25_Witness ==
    \E c \in Callers :
        /\ Answered(c)
        /\ op[c] = "search"
        /\ args[c] = << <<"a", "a">>, <<"A">> >>
        /\ Len(ret[c].res) = 2

====
